---- MODULE Spec2Model ----
(***************************************************************************)
(* Model of the Pharma Strategy tool (src/main.py): a Streamlit script     *)
(* that derives option lists from the criteria sheet, filters strategic    *)
(* imperatives for a (role, lifecycle, journey) selection, joins the       *)
(* selected imperatives against the results sheet and enriches every       *)
(* joined row through a text-generation call.                              *)
(*                                                                         *)
(* Text is a sequence of one-character strings, so that lower-casing and   *)
(* concatenation are computed character by character.  A cell of a sheet   *)
(* is a record [t, v]: t is "str", "nan" (blank cell) or "int", v its      *)
(* text (digits for a number, empty for a blank cell).                     *)
(***************************************************************************)
EXTENDS Integers, Sequences, FiniteSets, TLC

VARIABLES
    sheet1,                     \* criteria table: [columns, rows]
    sheet2,                     \* the "Product Differentiators" column
    sheet3,                     \* results table: [columns, rows]
    role_options, lifecycle_options, journey_options,
    role_selected, lifecycle_selected, journey_selected,
    strategic_options,          \* result of filter_strategic_imperatives
    selected_strategics,        \* multiselect value (a set: only membership is read)
    bound,                      \* is the name selected_strategics bound in this run
    selected_differentiators,   \* multiselect value, in selection order
    notices,                    \* st.error / st.warning / st.info of the current run
    pc,                         \* "idle", "loop", "done", "stopped", "crashed"
    exception,                  \* uncaught exception of the current run, or "none"
    results_df,                 \* joined rows being iterated: <<[idx, row]>>
    pos,                        \* rows of results_df already processed
    calls,                      \* generate_ai_output calls of the batch
    displayed                   \* blocks written to the page by the batch

vars == <<sheet1, sheet2, sheet3, role_options, lifecycle_options, journey_options,
          role_selected, lifecycle_selected, journey_selected, strategic_options,
          selected_strategics, bound, selected_differentiators, notices, pc,
          exception, results_df, pos, calls, displayed>>

----------------------------------------------------------------------------
(* Bounds of the model *)

MaxCols == 14
MaxRows == 2
MaxResultRows == 2

(* Column slices of the criteria sheet (Python slice bounds, 0-indexed) *)
RoleFrom == 1
RoleTo == 4
LifecycleFrom == 4
LifecycleTo == 9
JourneyFrom == 9
JourneyTo == 13
MaxSelections == 3

----------------------------------------------------------------------------
(* Cells and text *)

Str(s) == [t |-> "str", v |-> s]
NaN == [t |-> "nan", v |-> <<>>]
Int1 == [t |-> "int", v |-> <<"1">>]

None == "<None>"                \* Python None; no column bears this name
SI == "Strategic Imperative"
RESULT == "Result"

Min(a, b) == IF a <= b THEN a ELSE b
Range(s) == {s[i] : i \in DOMAIN s}

\* Python s[a:b] on a list
Slice(s, a, b) == SubSeq(s, a + 1, Min(b, Len(s)))

\* str.lower() on one character, over the alphabet of the model's cells
LowerChar(c) ==
    CASE c = "X" -> "x"
      [] c = "Y" -> "y"
      [] c = "A" -> "a"
      [] c = "B" -> "b"
      [] c = "N" -> "n"
      [] OTHER -> c

Lower(s) == [i \in DOMAIN s |-> LowerChar(s[i])]

\* astype(str) on one cell
AsStr(cell) ==
    CASE cell.t = "nan" -> <<"n", "a", "n">>
      [] OTHER -> cell.v

----------------------------------------------------------------------------
(* The criteria sheet (sheet1) *)

IndicatorNames ==
    <<"Marketer", "Clinician", "Payer",
      "Pre-Launch", "Launch", "Growth", "Maturity", "Decline",
      "Awareness", "Consideration", "Adoption", "Loyalty">>

\* Header row of a sheet of w columns whose first column is named `first`
Header(first, w) ==
    [i \in 1..w |->
        IF i = 1 THEN first
        ELSE IF i - 1 <= Len(IndicatorNames) THEN IndicatorNames[i - 1]
        ELSE "Extra" \o ToString(i)]

\* A row with the given label and the given cells in three indicator columns,
\* blank elsewhere, cut to the columns the sheet has
RowOf(columns, label, rc, rv, lc, lv, jc, jv) ==
    [c \in Range(columns) |->
        CASE c = SI -> label
          [] c = rc -> rv
          [] c = lc -> lv
          [] c = jc -> jv
          [] OTHER -> NaN]

X == Str(<<"x">>)
LabelA == Str(<<"A">>)
LabelB == Str(<<"B">>)

CellValues ==
    {X, Str(<<"X">>), Str(<<" ", "x">>), Str(<<"X", " ">>), Str(<<"y">>), NaN, Int1}

\* Row contents the criteria sheet is drawn from: <<label, role, lifecycle, journey>>
\* cells in the first column of each family, and one row marked in the last
\* column of each family
RowTemplates ==
    {<<"first", LabelA, v, X, X>> : v \in CellValues}
    \cup {<<"first", NaN, X, X, X>>,
          <<"first", LabelB, X, X, NaN>>,
          <<"first", LabelB, NaN, NaN, Str(<<"X">>)>>,
          <<"last", LabelB, X, Str(<<"X">>), X>>}

TemplateRow(columns, tpl) ==
    IF tpl[1] = "first"
    THEN RowOf(columns, tpl[2], "Marketer", tpl[3], "Pre-Launch", tpl[4], "Awareness", tpl[5])
    ELSE RowOf(columns, tpl[2], "Payer", tpl[3], "Decline", tpl[4], "Loyalty", tpl[5])

SeqsUpTo(S, n) == UNION {[1..k -> S] : k \in 0..n}

Sheet(columns, tpls) ==
    [columns |-> columns, rows |-> [i \in DOMAIN tpls |-> TemplateRow(columns, tpls[i])]]

RowA == <<"first", LabelA, X, X, X>>
RowB == <<"first", LabelB, Str(<<"X">>), X, X>>

\* Sheets of the full layout with every row content, and sheets of every width
\* (with or without a "Strategic Imperative" column) with plain rows
CriteriaTables ==
    {Sheet(Header(SI, JourneyTo), tpls) : tpls \in SeqsUpTo(RowTemplates, MaxRows)}
    \cup {Sheet(Header(first, w), tpls) :
            first \in {SI, "Label"}, w \in 0..MaxCols, tpls \in SeqsUpTo({RowA, RowB}, MaxRows)}

----------------------------------------------------------------------------
(* Extract Options from Sheet1 (main.py 47-52) *)

ResolveRole(columns) == Slice(columns, RoleFrom, RoleTo)
ResolveLifecycle(columns) == Slice(columns, LifecycleFrom, LifecycleTo)
ResolveJourney(columns) == Slice(columns, JourneyFrom, JourneyTo)

----------------------------------------------------------------------------
(* filter_strategic_imperatives (main.py 57-76) *)

Notice(level, msg) == [level |-> level, msg |-> msg]
ErrColumns == Notice("error", "columns do not match the expected names for filtering")
ErrFiltering == Notice("error", "Error filtering strategic imperatives")
WarnNoImperatives == Notice("warning", "No strategic imperatives found for these selections")

\* Mask without the .str.lower() step
MaskCaseSensitive(df, col) == [i \in DOMAIN df.rows |-> AsStr(df.rows[i][col]) = <<"x">>]

\* df[col].astype(str).str.lower() == 'x', per row
Mask(df, col) == [i \in DOMAIN df.rows |-> Lower(AsStr(df.rows[i][col])) = <<"x">>]

\* The three masks combined with | in place of &
MaskOr(m1, m2, m3) == [i \in DOMAIN m1 |-> m1[i] \/ m2[i] \/ m3[i]]

\* m1 & m2 & m3 on boolean Series
MaskAnd(m1, m2, m3) == [i \in DOMAIN m1 |-> m1[i] /\ m2[i] /\ m3[i]]

\* df[mask]: the rows whose mask is True, in row order
RECURSIVE BoolIndex(_, _, _)
BoolIndex(rows, mask, n) ==
    IF n = 0 THEN <<>>
    ELSE IF mask[n] THEN Append(BoolIndex(rows, mask, n - 1), rows[n])
    ELSE BoolIndex(rows, mask, n - 1)

\* Series.dropna().tolist()
RECURSIVE DropNa(_)
DropNa(cells) ==
    IF cells = <<>> THEN <<>>
    ELSE IF Head(cells).t = "nan" THEN DropNa(Tail(cells))
    ELSE <<Head(cells)>> \o DropNa(Tail(cells))

Filtered(df, role, lifecycle, journey) ==
    BoolIndex(df.rows,
              MaskAnd(Mask(df, role), Mask(df, lifecycle), Mask(df, journey)),
              Len(df.rows))

ColumnValues(rows, col) == [i \in DOMAIN rows |-> rows[i][col]]

\* The filter without the column check of lines 63-65: the KeyError of a
\* missing column is then caught at line 74
filter_unchecked(df, role, lifecycle, journey) ==
    IF {role, lifecycle, journey, SI} \subseteq Range(df.columns)
    THEN [ret |-> DropNa(ColumnValues(Filtered(df, role, lifecycle, journey), SI)),
          notices |-> <<>>]
    ELSE [ret |-> <<>>, notices |-> <<ErrFiltering>>]

\* Returns the list and the notices it reported
filter_strategic_imperatives(df, role, lifecycle, journey) ==
    IF role \notin Range(df.columns) \/ lifecycle \notin Range(df.columns)
       \/ journey \notin Range(df.columns)
    THEN [ret |-> <<>>, notices |-> <<ErrColumns>>]
    ELSE IF SI \notin Range(df.columns)
    THEN [ret |-> <<>>, notices |-> <<ErrFiltering>>]      \* KeyError caught at line 74
    ELSE [ret |-> DropNa(ColumnValues(Filtered(df, role, lifecycle, journey), SI)),
          notices |-> <<>>]

----------------------------------------------------------------------------
(* The differentiators sheet (sheet2) and the results sheet (sheet3) *)

FasterOnset == Str(<<"F", "O">>)
OnceDaily == Str(<<"O", "D">>)

DifferentiatorColumns == {<<FasterOnset, NaN, FasterOnset, OnceDaily>>}

\* Series.unique(): first occurrences, in order
RECURSIVE Unique(_)
Unique(cells) ==
    IF cells = <<>> THEN <<>>
    ELSE LET front == Unique(SubSeq(cells, 1, Len(cells) - 1))
             last == cells[Len(cells)]
         IN IF last \in Range(front) THEN front ELSE Append(front, last)

\* sheet2["Product Differentiators"].dropna().unique().tolist()  (main.py 138)
product_diff_options == Unique(DropNa(sheet2))

ResultTemplates ==
    {<<LabelA, Str(<<"r", "1">>)>>, <<LabelA, Str(<<"r", "2">>)>>, <<LabelB, Str(<<"r", "3">>)>>}

ResultSheet(columns, tpls) ==
    [columns |-> columns,
     rows |-> [i \in DOMAIN tpls |->
                [c \in Range(columns) |-> IF c = SI THEN tpls[i][1] ELSE tpls[i][2]]]]

ResultsTables ==
    {ResultSheet(<<SI, RESULT>>, tpls) : tpls \in SeqsUpTo(ResultTemplates, MaxResultRows)}
    \cup {ResultSheet(<<SI>>, <<<<LabelA, NaN>>>>)}

\* Distinct-element sequences over the elements of opts, at most n long
DistinctSeqs(opts, n) ==
    {q \in SeqsUpTo(Range(opts), Min(n, Len(opts))) :
        \A i, j \in DOMAIN q : i # j => q[i] # q[j]}

----------------------------------------------------------------------------
(* generate_ai_output (main.py 78-111) *)

Keys == {"description", "cost", "timeframe"}

Dict(keys, d) == [t |-> "dict", keys |-> keys, d |-> d]
Fallback == Dict(Keys, [k \in Keys |-> "N/A"])
FullRecord ==
    Dict(Keys, [k \in Keys |->
        CASE k = "description" -> "d" [] k = "cost" -> "$1-2M" [] OTHER -> "6 months"])
PartialRecord ==
    Dict({"description"}, [k \in Keys |-> IF k = "description" THEN "d" ELSE ""])
JsonList == [t |-> "list", keys |-> {}, d |-> [k \in Keys |-> ""]]

\* What openai.ChatCompletion.create does: raise, or answer with a message
\* whose content is a text
Responses ==
    {[raises |-> TRUE, content |-> ""],
     [raises |-> FALSE, content |-> "Here is my recommendation: ..."],
     [raises |-> FALSE, content |-> "[\"d\", \"$1-2M\", \"6 months\"]"],
     [raises |-> FALSE, content |-> "{\"description\": \"d\"}"],
     [raises |-> FALSE,
      content |-> "{\"description\": \"d\", \"cost\": \"$1-2M\", \"timeframe\": \"6 months\"}"]}

\* json.loads on the texts above: the parsed value, or JSONDecodeError
JsonLoads(content) ==
    CASE content = "[\"d\", \"$1-2M\", \"6 months\"]" -> [ok |-> TRUE, value |-> JsonList]
      [] content = "{\"description\": \"d\"}" -> [ok |-> TRUE, value |-> PartialRecord]
      [] content = "{\"description\": \"d\", \"cost\": \"$1-2M\", \"timeframe\": \"6 months\"}"
            -> [ok |-> TRUE, value |-> FullRecord]
      [] OTHER -> [ok |-> FALSE, value |-> Fallback]

Chars_CommaSpace == <<",", " ">>
Chars_None == <<"N", "o", "n", "e">>
Chars_CustomizedWith ==
    <<" ", "(", "C", "u", "s", "t", "o", "m", "i", "z", "e", "d", " ",
      "w", "i", "t", "h", ":", " ">>
Chars_Close == <<")">>

\* sep.join(items) on a list of str
RECURSIVE Join(_, _)
Join(sep, items) ==
    IF items = <<>> THEN <<>>
    ELSE IF Len(items) = 1 THEN items[1].v
    ELSE items[1].v \o sep \o Join(sep, Tail(items))

ErrDecoding == Notice("error", "Error decoding AI response. Please try again.")
ErrGenerating == Notice("error", "Error generating AI output")

\* generate_ai_output with the decode failure answered by an empty dict, unreported
generate_ai_output_empty(customized_result, differentiators, response) ==
    LET prompt == [strategy |-> customized_result, differentiators |-> <<>>]
    IN  IF response.raises
        THEN [ret |-> Fallback, notices |-> <<ErrGenerating>>, prompt |-> prompt]
        ELSE LET parsed == JsonLoads(response.content)
             IN IF parsed.ok
                THEN [ret |-> parsed.value, notices |-> <<>>, prompt |-> prompt]
                ELSE [ret |-> Dict({}, [k \in Keys |-> ""]), notices |-> <<>>,
                      prompt |-> prompt]

\* The value returned, the notices reported and the prompt sent
generate_ai_output(customized_result, differentiators, response) ==
    LET differentiators_text ==
            IF differentiators # <<>> THEN Join(Chars_CommaSpace, differentiators)
            ELSE Chars_None
        prompt == [strategy |-> customized_result, differentiators |-> differentiators_text]
    IN  IF response.raises
        THEN \* create() raised: line 109
             [ret |-> Fallback, notices |-> <<ErrGenerating>>, prompt |-> prompt]
        ELSE LET parsed == JsonLoads(response.content)
             IN IF parsed.ok
                THEN [ret |-> parsed.value, notices |-> <<>>, prompt |-> prompt]
                ELSE [ret |-> Fallback, notices |-> <<ErrDecoding>>, prompt |-> prompt]

----------------------------------------------------------------------------
(* The script body (main.py 116-169); every widget interaction reruns it *)

ErrSelectOne == Notice("error", "Please select at least one strategic imperative.")
ErrSheet3 == Notice("error", "Sheet3 must have columns named 'Strategic Imperative' and 'Result'.")
InfoNoResults == Notice("info", "No results found for the selected strategic imperatives.")

\* st.selectbox: the options to choose from; None when there is none
Pick(options) == IF options = <<>> THEN {None} ELSE Range(options)
Default(options) == IF options = <<>> THEN None ELSE options[1]

\* Steps 1 and 2 (main.py 120-130): the filter, the warning, and whether the
\* else branch binds selected_strategics
Steps12(df, role, lifecycle, journey) ==
    LET f == filter_strategic_imperatives(df, role, lifecycle, journey)
    IN  [options |-> f.ret,
         notices |-> f.notices \o (IF f.ret = <<>> THEN <<WarnNoImperatives>> ELSE <<>>),
         bound |-> f.ret # <<>>]

\* The join keeping only the first row of each imperative
RECURSIVE IsinFirst(_, _, _)
IsinFirst(rows, selected, n) ==
    IF n = 0 THEN <<>>
    ELSE IF rows[n][SI] \in selected /\ \A m \in 1..(n - 1) : rows[m][SI] # rows[n][SI]
         THEN Append(IsinFirst(rows, selected, n - 1), [idx |-> n - 1, row |-> rows[n]])
    ELSE IsinFirst(rows, selected, n - 1)

\* sheet3[sheet3["Strategic Imperative"].isin(selected)] as iterrows() yields it:
\* (index label, row) pairs in row order  (main.py 153, 157)
RECURSIVE Isin(_, _, _)
Isin(rows, selected, n) ==
    IF n = 0 THEN <<>>
    ELSE IF rows[n][SI] \in selected
         THEN Append(Isin(rows, selected, n - 1), [idx |-> n - 1, row |-> rows[n]])
    ELSE Isin(rows, selected, n - 1)

\* The suffix appended whether or not a differentiator is selected
CustomizeAlways(base_result, differentiators) ==
    base_result \o Chars_CustomizedWith \o Join(Chars_CommaSpace, differentiators)
                \o Chars_Close

\* main.py 158-163
Customize(base_result, differentiators) ==
    LET differentiators_text ==
            IF differentiators # <<>> THEN Join(Chars_CommaSpace, differentiators) ELSE <<>>
    IN  IF differentiators_text # <<>>
        THEN base_result \o Chars_CustomizedWith \o differentiators_text \o Chars_Close
        ELSE base_result

\* dict.get(key, default)
Get(output, key, default) == IF key \in output.keys THEN output.d[key] ELSE default

ResetBatch ==
    /\ pc' = "idle"
    /\ exception' = "none"
    /\ results_df' = <<>>
    /\ pos' = 0
    /\ calls' = <<>>
    /\ displayed' = <<>>

Sheets == <<sheet1, sheet2, sheet3, role_options, lifecycle_options, journey_options>>

\* A rerun of the script with the step 1 selectboxes at the given values
Rerun(role, lifecycle, journey) ==
    /\ pc # "loop"
    /\ LET top == Steps12(sheet1, role, lifecycle, journey)
       IN  /\ role_selected' = role
           /\ lifecycle_selected' = lifecycle
           /\ journey_selected' = journey
           /\ strategic_options' = top.options
           /\ bound' = top.bound
           /\ selected_strategics' =
                 IF top.bound /\ bound /\ top.options = strategic_options
                 THEN selected_strategics ELSE {}
           /\ notices' = top.notices
    /\ ResetBatch
    /\ UNCHANGED <<Sheets, selected_differentiators>>

\* The user changes one selectbox of step 1 (main.py 120-122)
SelectRole(role) ==
    /\ role \in Pick(role_options)
    /\ Rerun(role, lifecycle_selected, journey_selected)

SelectLifecycle(lifecycle) ==
    /\ lifecycle \in Pick(lifecycle_options)
    /\ Rerun(role_selected, lifecycle, journey_selected)

SelectJourney(journey) ==
    /\ journey \in Pick(journey_options)
    /\ Rerun(role_selected, lifecycle_selected, journey)

\* The user changes the multiselect of step 2, which exists only in the else branch
SelectImperatives(S) ==
    /\ pc # "loop"
    /\ bound
    /\ S \subseteq Range(strategic_options)
    /\ Cardinality(S) <= MaxSelections
    /\ selected_strategics' = S
    /\ notices' = Steps12(sheet1, role_selected, lifecycle_selected, journey_selected).notices
    /\ ResetBatch
    /\ UNCHANGED <<Sheets, role_selected, lifecycle_selected, journey_selected,
                   strategic_options, bound, selected_differentiators>>

\* The user changes the multiselect of step 3
SelectDifferentiators(D) ==
    /\ pc # "loop"
    /\ D \in DistinctSeqs(product_diff_options, MaxSelections)
    /\ selected_differentiators' = D
    /\ notices' = Steps12(sheet1, role_selected, lifecycle_selected, journey_selected).notices
    /\ ResetBatch
    /\ UNCHANGED <<Sheets, role_selected, lifecycle_selected, journey_selected,
                   strategic_options, bound, selected_strategics>>

\* The user presses "Generate Strategy": main.py 142-156
ClickGenerate ==
    /\ pc # "loop"
    /\ LET top == Steps12(sheet1, role_selected, lifecycle_selected, journey_selected).notices
           joined == Isin(sheet3.rows, selected_strategics, Len(sheet3.rows))
       IN  /\ calls' = <<>>
           /\ displayed' = <<>>
           /\ pos' = 0
           /\ IF ~bound
              THEN \* line 143 reads a name no branch of this run has bound
                   /\ exception' = "NameError"
                   /\ pc' = "crashed"
                   /\ notices' = top
                   /\ results_df' = <<>>
              ELSE IF selected_strategics = {}
              THEN /\ exception' = "none"
                   /\ pc' = "done"
                   /\ notices' = Append(top, ErrSelectOne)
                   /\ results_df' = <<>>
              ELSE IF SI \notin Range(sheet3.columns) \/ RESULT \notin Range(sheet3.columns)
              THEN /\ exception' = "none"
                   /\ pc' = "stopped"
                   /\ notices' = Append(top, ErrSheet3)
                   /\ results_df' = <<>>
              ELSE IF joined = <<>>
              THEN /\ exception' = "none"
                   /\ pc' = "done"
                   /\ notices' = Append(top, InfoNoResults)
                   /\ results_df' = <<>>
              ELSE /\ exception' = "none"
                   /\ pc' = "loop"
                   /\ notices' = top
                   /\ results_df' = joined
    /\ UNCHANGED <<Sheets, role_selected, lifecycle_selected, journey_selected,
                   strategic_options, bound, selected_strategics, selected_differentiators>>

\* One iteration of the loop at main.py 157-169, the provider answering `response`
EnrichRow(response) ==
    /\ pc = "loop"
    /\ pos < Len(results_df)
    /\ LET entry == results_df[pos + 1]
           base_result == entry.row[RESULT].v
           customized_result == Customize(base_result, selected_differentiators)
           out == generate_ai_output(customized_result, selected_differentiators, response)
       IN  /\ calls' = Append(calls, [idx |-> entry.idx,
                                      customized_result |-> customized_result,
                                      differentiators |-> selected_differentiators,
                                      prompt |-> out.prompt,
                                      response |-> response,
                                      ret |-> out.ret,
                                      notices |-> out.notices])
           /\ notices' = notices \o out.notices
           /\ IF out.ret.t = "dict"
              THEN /\ displayed' = Append(displayed,
                        [idx |-> entry.idx,
                         subheader |-> customized_result,
                         description |-> Get(out.ret, "description", "No description available."),
                         cost |-> Get(out.ret, "cost", "N/A"),
                         timeframe |-> Get(out.ret, "timeframe", "N/A"),
                         complete |-> TRUE])
                   /\ pos' = pos + 1
                   /\ pc' = IF pos + 1 = Len(results_df) THEN "done" ELSE "loop"
                   /\ exception' = "none"
              ELSE \* a list has no .get: AttributeError at line 167, after the subheader
                   /\ displayed' = Append(displayed,
                        [idx |-> entry.idx,
                         subheader |-> customized_result,
                         description |-> "", cost |-> "", timeframe |-> "",
                         complete |-> FALSE])
                   /\ pos' = pos
                   /\ pc' = "crashed"
                   /\ exception' = "AttributeError"
    /\ UNCHANGED <<Sheets, role_selected, lifecycle_selected, journey_selected,
                   strategic_options, bound, selected_strategics, selected_differentiators,
                   results_df>>

----------------------------------------------------------------------------
(* Specifications *)

\* The state after the first run of the script on the loaded sheets
Loaded(s1, s2, s3) ==
    /\ sheet1 = s1
    /\ sheet2 = s2
    /\ sheet3 = s3
    /\ role_options = ResolveRole(s1.columns)
    /\ lifecycle_options = ResolveLifecycle(s1.columns)
    /\ journey_options = ResolveJourney(s1.columns)
    /\ role_selected = Default(ResolveRole(s1.columns))
    /\ lifecycle_selected = Default(ResolveLifecycle(s1.columns))
    /\ journey_selected = Default(ResolveJourney(s1.columns))
    /\ LET top == Steps12(s1, Default(ResolveRole(s1.columns)),
                          Default(ResolveLifecycle(s1.columns)),
                          Default(ResolveJourney(s1.columns)))
       IN  /\ strategic_options = top.options
           /\ bound = top.bound
           /\ notices = top.notices
    /\ selected_strategics = {}
    /\ selected_differentiators = <<>>
    /\ pc = "idle"
    /\ exception = "none"
    /\ results_df = <<>>
    /\ pos = 0
    /\ calls = <<>>
    /\ displayed = <<>>

\* Criteria sheet of the sessions: the full layout, imperatives A and B
SessionTables == {Sheet(Header(SI, JourneyTo), <<RowA, RowB>>)}

Init ==
    \E s1 \in SessionTables, s2 \in DifferentiatorColumns, s3 \in ResultsTables :
        Loaded(s1, s2, s3)

Next ==
    \/ \E r \in Pick(role_options) : SelectRole(r)
    \/ \E l \in Pick(lifecycle_options) : SelectLifecycle(l)
    \/ \E j \in Pick(journey_options) : SelectJourney(j)
    \/ \E S \in SUBSET Range(strategic_options) : SelectImperatives(S)
    \/ \E D \in DistinctSeqs(product_diff_options, MaxSelections) : SelectDifferentiators(D)
    \/ ClickGenerate
    \/ \E response \in Responses : EnrichRow(response)

Spec == Init /\ [][Next]_vars

\* Criteria resolution and filtering alone, over sheets of every width
InitCriteria ==
    \E s1 \in CriteriaTables, s2 \in DifferentiatorColumns :
        Loaded(s1, s2, ResultSheet(<<SI, RESULT>>, <<>>))

NextCriteria ==
    \/ \E r \in Pick(role_options) : SelectRole(r)
    \/ \E l \in Pick(lifecycle_options) : SelectLifecycle(l)
    \/ \E j \in Pick(journey_options) : SelectJourney(j)

SpecCriteria == InitCriteria /\ [][NextCriteria]_vars

----------------------------------------------------------------------------
(* Properties *)

Levels(ns) == {ns[i].level : i \in DOMAIN ns}
Count(seq, v) == Cardinality({k \in DOMAIN seq : seq[k] = v})

\* The step 1 selection names columns of the criteria sheet, which has its
\* "Strategic Imperative" column
ColumnsExist ==
    {role_selected, lifecycle_selected, journey_selected} \subseteq Range(sheet1.columns)
ValidSelection == ColumnsExist /\ SI \in Range(sheet1.columns)

\* The "x" marker, case-insensitive
XMarkers == {Str(<<"x">>), Str(<<"X">>)}
\* The marker as a whitespace-tolerant comparison would read it
XMarkersTrimmed == XMarkers \cup {Str(<<" ", "x">>), Str(<<"X", " ">>)}

MarkedIn(i, markers) ==
    /\ sheet1.rows[i][role_selected] \in markers
    /\ sheet1.rows[i][lifecycle_selected] \in markers
    /\ sheet1.rows[i][journey_selected] \in markers

\* A call of generate_ai_output whose provider call failed or answered non-JSON text
FailedCall(c) == c.response.raises \/ c.response.content = "Here is my recommendation: ..."

\* The join ran in the current run
Joined == pc \in {"loop", "done"} \/ (pc = "crashed" /\ exception = "AttributeError")

(* C1: whatever the text-generation call does, every record generate_ai_output
   returns holds all three keys description, cost and timeframe (the fallback
   record included); no partially populated record and no other value. *)
C1_FullOrFallback ==
    \A i \in DOMAIN calls : calls[i].ret.t = "dict" /\ calls[i].ret.keys = Keys

(* C2: when the provider call raises or answers non-JSON text, generate_ai_output
   returns exactly the fallback record, reports an error notice, and the loop
   goes on to display the row: nothing is raised. *)
C2_FailureYieldsFallback ==
    \A i \in DOMAIN calls :
        FailedCall(calls[i]) =>
            /\ calls[i].ret = Fallback
            /\ "error" \in Levels(calls[i].notices)
            /\ \A k \in DOMAIN calls[i].notices : calls[i].notices[k] \in Range(notices)
            /\ i \in DOMAIN displayed
            /\ displayed[i].complete
            /\ displayed[i].description = "N/A"
            /\ displayed[i].cost = "N/A"
            /\ displayed[i].timeframe = "N/A"

C2_Witness ==
    /\ pc = "done"
    /\ Len(calls) = 2
    /\ calls[1].response.raises
    /\ calls[2].response.content = "Here is my recommendation: ..."
    /\ calls[1].ret = Fallback
    /\ calls[2].ret = Fallback

(* C3: for a selection of existing columns, the filter returns exactly the
   non-blank "Strategic Imperative" values of the rows marked "x" in the role
   AND the lifecycle AND the journey column, in row order, duplicates kept; the
   empty sequence when no row matches, with no error reported. *)
C3_FilterIsConjunction ==
    ValidSelection =>
        LET M == {i \in DOMAIN sheet1.rows :
                     MarkedIn(i, XMarkers) /\ sheet1.rows[i][SI].t # "nan"}
        IN  /\ Len(strategic_options) = Cardinality(M)
            /\ \A i \in M :
                  strategic_options[Cardinality({j \in M : j <= i})] = sheet1.rows[i][SI]
            /\ "error" \notin Levels(notices)
            /\ exception = "none"

C3_Witness ==
    /\ ValidSelection
    /\ Len(sheet1.rows) = 2
    /\ MarkedIn(1, XMarkers)
    /\ sheet1.rows[2][role_selected] = X
    /\ sheet1.rows[2][lifecycle_selected] = X
    /\ sheet1.rows[2][journey_selected] = NaN
    /\ strategic_options = <<sheet1.rows[1][SI]>>

(* C4 as stated: a selection naming a column the criteria sheet lacks yields an
   error outcome in place of the list, distinguishable from the empty list the
   filter returns when the columns exist and no row matches. *)
C4_MissingColumnIsError ==
    ~ColumnsExist => strategic_options # <<>>

(* C4 as amended: a selection naming a column the criteria sheet lacks makes the
   filter report the error notice "columns do not match" and return the empty
   list, the value it also returns when the columns exist and no row matches;
   the notice alone tells the two apart, and the caller adds its "no strategic
   imperatives" warning in both cases. *)
C4_MissingColumnIsNoticeAndEmpty ==
    /\ ~ColumnsExist =>
          /\ strategic_options = <<>>
          /\ ErrColumns \in Range(notices)
          /\ WarnNoImperatives \in Range(notices)
          /\ exception = "none"
    /\ ColumnsExist => ErrColumns \notin Range(notices)

C4_Witness ==
    /\ Len(sheet1.columns) = JourneyFrom
    /\ role_selected = "Payer"
    /\ journey_selected = None
    /\ ErrColumns \in Range(notices)
    /\ strategic_options = <<>>

(* C5 as stated: the marker predicate is case-insensitive and whitespace-tolerant:
   a row is returned (its label as often as it has matching rows) exactly when
   each of its three selected cells is one of "x", "X", " x", "X ". *)
C5_MarkerTrimmed ==
    ValidSelection =>
        \A label \in {LabelA, LabelB} :
            Count(strategic_options, label) =
                Cardinality({i \in DOMAIN sheet1.rows :
                                sheet1.rows[i][SI] = label /\ MarkedIn(i, XMarkersTrimmed)})

(* C5 as amended: the marker predicate is case-insensitive but not
   whitespace-tolerant: only the cell values "x" and "X" count as marked;
   " x", "X ", blank cells, numeric cells and any other text do not. *)
C5_MarkerExact ==
    ValidSelection =>
        \A label \in {LabelA, LabelB} :
            Count(strategic_options, label) =
                Cardinality({i \in DOMAIN sheet1.rows :
                                sheet1.rows[i][SI] = label /\ MarkedIn(i, XMarkers)})

C5_Witness ==
    /\ ValidSelection
    /\ Len(sheet1.rows) = 2
    /\ sheet1.rows[1][role_selected] = Str(<<"X">>)
    /\ sheet1.rows[2][role_selected] = Str(<<"X", " ">>)
    /\ sheet1.rows[2][lifecycle_selected] = X
    /\ sheet1.rows[2][journey_selected] = X
    /\ strategic_options = <<LabelA>>

(* C6: the join holds one entry for every results-sheet row whose "Strategic
   Imperative" is in the selection and for no other row, in row order, each
   entry carrying its own row: rows sharing a label are all kept. *)
C6_JoinKeepsEveryMatchingRow ==
    Joined =>
        /\ {results_df[k].idx + 1 : k \in DOMAIN results_df}
              = {i \in DOMAIN sheet3.rows : sheet3.rows[i][SI] \in selected_strategics}
        /\ \A k \in DOMAIN results_df : results_df[k].row = sheet3.rows[results_df[k].idx + 1]
        /\ \A k, m \in DOMAIN results_df : k < m => results_df[k].idx < results_df[m].idx

C6_Witness ==
    /\ pc = "done"
    /\ Len(sheet3.rows) = 2
    /\ Len(results_df) = 2
    /\ results_df[1].row[SI] = results_df[2].row[SI]
    /\ results_df[1].row[RESULT] # results_df[2].row[RESULT]
    /\ Len(displayed) = 2

(* C7: whatever the provider answers for any row, once the batch has ended every
   joined row has been enriched and displayed in order, and a row whose call
   failed shows the fallback while the other rows show their own records. *)
C7_BatchNeverAborts ==
    (Joined /\ pc # "loop") =>
        /\ exception = "none"
        /\ Len(displayed) = Len(results_df)
        /\ Len(calls) = Len(results_df)
        /\ \A k \in DOMAIN displayed :
              /\ displayed[k].complete
              /\ displayed[k].idx = results_df[k].idx
              /\ FailedCall(calls[k]) => calls[k].ret = Fallback

(* C8: a generate request with no imperative selected, the state where the
   filter returned nothing included, ends with the "select at least one" error
   notice: no crash, no join, no text-generation call. *)
C8_EmptySelectionIsUserError ==
    (pc # "idle" /\ (~bound \/ selected_strategics = {})) =>
        /\ exception = "none"
        /\ pc = "done"
        /\ ErrSelectOne \in Range(notices)
        /\ results_df = <<>>
        /\ calls = <<>>

(* C9: a criteria sheet of fewer than 13 columns is refused (the run stops with
   an error and offers no option list); otherwise the option lists are the
   columns at positions 1-3, 4-8 and 9-12. *)
C9_NarrowSheetRefused ==
    /\ Len(sheet1.columns) < JourneyTo =>
          /\ pc = "stopped"
          /\ "error" \in Levels(notices)
          /\ role_options = <<>> /\ lifecycle_options = <<>> /\ journey_options = <<>>
    /\ Len(sheet1.columns) >= JourneyTo =>
          /\ role_options = <<sheet1.columns[2], sheet1.columns[3], sheet1.columns[4]>>
          /\ lifecycle_options = [i \in 1..5 |-> sheet1.columns[i + 4]]
          /\ journey_options = [i \in 1..4 |-> sheet1.columns[i + 9]]

\* ", ".join of at most three texts, written out
JoinedText(D) ==
    CASE Len(D) = 1 -> D[1].v
      [] Len(D) = 2 -> D[1].v \o <<",", " ">> \o D[2].v
      [] Len(D) = 3 -> D[1].v \o <<",", " ">> \o D[2].v \o <<",", " ">> \o D[3].v
      [] OTHER -> <<>>

(* C10: for every joined row, the customized text is the row's Result text when
   no differentiator is selected, and that text followed by
   " (Customized with: " + the differentiators joined by ", " + ")" otherwise;
   the selection is the same for every row and is the one passed to the row's
   enrichment call, and the customized text heads the row's display. *)
C10_CustomizedText ==
    \A i \in DOMAIN calls :
        LET base == sheet3.rows[calls[i].idx + 1][RESULT].v
        IN  /\ calls[i].differentiators = selected_differentiators
            /\ selected_differentiators = <<>> => calls[i].customized_result = base
            /\ selected_differentiators # <<>> =>
                  calls[i].customized_result =
                      base \o Chars_CustomizedWith
                           \o JoinedText(selected_differentiators) \o <<")">>
            /\ calls[i].prompt.strategy = calls[i].customized_result
            /\ displayed[i].subheader = calls[i].customized_result

C10_Witness ==
    /\ pc = "done"
    /\ Len(calls) = 2
    /\ selected_differentiators = <<FasterOnset, OnceDaily>>
    /\ calls[1].customized_result =
          <<"r", "1", " ", "(", "C", "u", "s", "t", "o", "m", "i", "z", "e", "d", " ",
            "w", "i", "t", "h", ":", " ", "F", "O", ",", " ", "O", "D", ")">>

====
